---- MODULE Spec2Model ----
(***************************************************************************)
(* Goal hierarchy of the GoalGraph API.                                    *)
(*                                                                         *)
(* Two specifications share this module:                                   *)
(*   Spec      the REST API (api/main.py) over the data layer (api/db.py)  *)
(*             and the goals table it talks to;                            *)
(*   TreeSpec  the two tree builders (api/db.py and app/db.py build_tree)  *)
(*             applied to arbitrary row lists.                             *)
(*                                                                         *)
(* Identifiers are modelled by their canonical string form (both builders  *)
(* key every lookup by str(id)), written as positive integers; 0 stands    *)
(* for Python's None / SQL NULL.                                           *)
(***************************************************************************)
EXTENDS Integers, Sequences, FiniteSets, TLC

\* ------------------------------------------------------------------ bounds
\* Goals the table ever allocates an id for (API specification).
MaxGoals == 2
\* Longest row list handed to the tree builders (TreeSpec).
MaxRows == 3
MaxFlat == 4

\* ------------------------------------------------------------- vocabulary
None == 0
\* a key that is not in a JSON body
Omitted == -1

\* Authenticated subjects: two users, and a valid token without "sub"
\* (payload.get("sub") is None).
Users == {"u1", "u2"}
NoSub == "nosub"
Subjects == Users \cup {NoSub}

\* A well-formed UUID that no row ever carries.
FakeId == MaxGoals + 1

\* Outcomes of one call into the goals table: it answers, or it raises an
\* exception whose message names a constraint, a timeout, or neither.
ReadFaults == {"none", "timeout"}
WriteFaults == {"none", "constraint", "timeout", "error"}
\* An insert may also answer without returning the inserted row.
CreateFaults == WriteFaults \cup {"norow"}

\* Status values a PATCH may carry in this model (Unset: the payload's status
\* is None); rows are created with the GoalCreate default "todo".
Unset == "unset"
PatchStatus == {Unset, "done"}
\* a "user_id" field in the body of POST /goals: absent, or some user's id
BodyUserIds == {Unset} \cup Users

VARIABLES
    store,      \* the goals table: rows in table order
    nextId,     \* next id the table allocates
    resp,       \* the last HTTP response, with the request it answers
    rows,       \* TreeSpec: the row list handed to build_tree
    built,      \* TreeSpec: what each builder returned for rows
    race,       \* RaceSpec: two PATCH requests in flight at the same time
    sent        \* PatchSpec: updates given to db.update_goal, patches forwarded

vars == <<store, nextId, resp, rows, built, race, sent>>

\* ------------------------------------------------------------ row helpers
RowIds(rs) == {rs[i].id : i \in 1..Len(rs)}

RowOf(rs, id) == rs[CHOOSE i \in 1..Len(rs) : rs[i].id = id]

ParentOf(rs, id) == RowOf(rs, id).parent_id

EmptyForest == [roots |-> <<>>, children |-> <<>>]

\* ------------------------------------------------- api/db.py build_tree
\* by_id = {str(r["id"]): {**r, "children": []} for r in rows}: one node per
\* row, in row order (ids are the table's primary key, hence distinct).
by_id(rs) == [roots |-> <<>>, children |-> [k \in RowIds(rs) |-> <<>>]]

\* The loop with "elif not pid" in place of "else": a row whose parent is
\* missing from the input lands nowhere.
RECURSIVE api_build_loop_elif(_, _, _)
api_build_loop_elif(rs, i, acc) ==
    IF i > Len(rs) THEN acc
    ELSE LET r == rs[i]
             pid == r.parent_id
         IN IF pid # None /\ pid \in RowIds(rs)
            THEN api_build_loop_elif(rs, i + 1,
                     [acc EXCEPT !.children[pid] = Append(@, r.id)])
            ELSE IF pid = None
            THEN api_build_loop_elif(rs, i + 1,
                     [acc EXCEPT !.roots = Append(@, r.id)])
            ELSE api_build_loop_elif(rs, i + 1, acc)

\* The loop of api/db.py build_tree from row i on: a row whose parent_id is
\* truthy and names an indexed row is appended to that row's children, every
\* other row to the root list.
RECURSIVE api_build_loop(_, _, _)
api_build_loop(rs, i, acc) ==
    IF i > Len(rs) THEN acc
    ELSE LET r == rs[i]
             pid == r.parent_id
         IN IF pid # None /\ pid \in RowIds(rs)
            THEN api_build_loop(rs, i + 1,
                     [acc EXCEPT !.children[pid] = Append(@, r.id)])
            ELSE api_build_loop(rs, i + 1,
                     [acc EXCEPT !.roots = Append(@, r.id)])

\* build_tree taking a row that names itself as parent for a root.
api_build_tree_self_root(rs) ==
    api_build_loop([i \in 1..Len(rs) |->
                       IF rs[i].parent_id = rs[i].id
                       THEN [rs[i] EXCEPT !.parent_id = None] ELSE rs[i]],
                   1, by_id(rs))

\* build_tree(rows) of api/db.py
api_build_tree(rs) == api_build_loop(rs, 1, by_id(rs))

\* ------------------------------------------------- app/db.py build_tree
\* detect_cycle with its two early returns in the other order: a node met
\* again on the current path counts as already explored.
RECURSIVE detect_cycle_visited_first(_, _, _, _)
detect_cycle_visited_first(rs, node_id, path, st) ==
    IF node_id \in st.visited THEN [st EXCEPT !.ret = FALSE]
    ELSE IF node_id \in path THEN [st EXCEPT !.ret = TRUE]
    ELSE LET st1 == [st EXCEPT !.visited = @ \cup {node_id}]
             parent_id == ParentOf(rs, node_id)
         IN IF parent_id # None /\ parent_id \in RowIds(rs)
            THEN LET sub == detect_cycle_visited_first(rs, parent_id,
                                                       path \cup {node_id}, st1)
                 IN IF sub.ret
                    THEN [sub EXCEPT !.in_cycle = @ \cup {node_id}]
                    ELSE sub
            ELSE [st1 EXCEPT !.ret = FALSE]

\* detect_cycle(node_id, path) with its two closure sets threaded through
\* st = [visited, in_cycle, ret]; ret is the call's return value.  path is
\* only ever read on the way down (a call that returns True unwinds without
\* touching it again), so it is passed by value.
RECURSIVE detect_cycle(_, _, _, _)
detect_cycle(rs, node_id, path, st) ==
    IF node_id \in path THEN [st EXCEPT !.ret = TRUE]
    ELSE IF node_id \in st.visited THEN [st EXCEPT !.ret = FALSE]
    ELSE LET st1 == [st EXCEPT !.visited = @ \cup {node_id}]
             parent_id == ParentOf(rs, node_id)
         IN IF parent_id # None /\ parent_id \in RowIds(rs)
            THEN LET sub == detect_cycle(rs, parent_id, path \cup {node_id}, st1)
                 IN IF sub.ret
                    THEN [sub EXCEPT !.in_cycle = @ \cup {node_id}]
                    ELSE sub
            ELSE [st1 EXCEPT !.ret = FALSE]

\* "for node_id in by_id: if node_id not in visited: detect_cycle(node_id, set())"
RECURSIVE detect_all(_, _, _)
detect_all(rs, i, st) ==
    IF i > Len(rs) THEN st
    ELSE IF rs[i].id \in st.visited THEN detect_all(rs, i + 1, st)
    ELSE detect_all(rs, i + 1, detect_cycle(rs, rs[i].id, {}, st))

in_cycle(rs) ==
    detect_all(rs, 1, [visited |-> {}, in_cycle |-> {}, ret |-> FALSE]).in_cycle

\* The second loop without its two in_cycle tests (the loop of api/db.py).
app_build_loop_no_cycle_test(rs, cyc, i, acc) == api_build_loop(rs, i, acc)

\* The second loop of app/db.py build_tree from row i on, given in_cycle.
RECURSIVE app_build_loop(_, _, _, _)
app_build_loop(rs, cyc, i, acc) ==
    IF i > Len(rs) THEN acc
    ELSE LET r == rs[i]
             pid == r.parent_id
         IN IF r.id \in cyc
            THEN app_build_loop(rs, cyc, i + 1,
                     [acc EXCEPT !.roots = Append(@, r.id)])
            ELSE IF pid # None /\ pid \in RowIds(rs) /\ pid \notin cyc
            THEN app_build_loop(rs, cyc, i + 1,
                     [acc EXCEPT !.children[pid] = Append(@, r.id)])
            ELSE app_build_loop(rs, cyc, i + 1,
                     [acc EXCEPT !.roots = Append(@, r.id)])

\* build_tree of app/db.py that lists cycle members as roots and still hangs
\* every row under its parent as the loop of api/db.py does.
app_build_tree_keeps_links(rs) ==
    [roots    |-> app_build_loop(rs, in_cycle(rs), 1, by_id(rs)).roots,
     children |-> api_build_tree(rs).children]

app_build_tree(rs) == app_build_loop(rs, in_cycle(rs), 1, by_id(rs))

\* --------------------------------------------------------- forest helpers
SeqSet(s) == {s[i] : i \in 1..Len(s)}

\* Ids reachable from the root list through children lists.
RECURSIVE ReachFrom(_, _, _)
ReachFrom(f, frontier, seen) ==
    IF frontier = {} THEN seen
    ELSE LET nxt == UNION {SeqSet(f.children[n]) : n \in frontier}
         IN ReachFrom(f, nxt \ (seen \cup frontier), seen \cup frontier)

Reachable(f) == ReachFrom(f, SeqSet(f.roots), {})

\* How many slots (root list or some children list) hold id.
Count(s, id) == Cardinality({i \in 1..Len(s) : s[i] = id})

RECURSIVE SumOver(_, _, _)
SumOver(f, S, id) ==
    IF S = {} THEN 0
    ELSE LET n == CHOOSE x \in S : TRUE
         IN Count(f.children[n], id) + SumOver(f, S \ {n}, id)

Occurrences(f, id) ==
    Count(f.roots, id) + SumOver(f, DOMAIN f.children, id)

\* Ids met by following parent_id links upward from id (id itself only when
\* the links lead back to it).
RECURSIVE AncestorsFrom(_, _, _)
AncestorsFrom(rs, id, seen) ==
    IF id \notin RowIds(rs) THEN seen
    ELSE LET p == ParentOf(rs, id)
         IN IF p = None \/ p \in seen THEN seen
            ELSE AncestorsFrom(rs, p, seen \cup {p})

Ancestors(rs, id) == AncestorsFrom(rs, id, {})

\* id lies on a parent_id cycle of rs.
OnCycle(rs, id) == id \in Ancestors(rs, id)

\* The ancestor chain of id ends at a row without parent.
WellFormed(rs, id) ==
    /\ ~OnCycle(rs, id)
    /\ Ancestors(rs, id) \subseteq RowIds(rs)
    /\ \A a \in Ancestors(rs, id) : ~OnCycle(rs, a)

\* ------------------------------------------- api/main.py _flatten_tree
\* status_map.get(goal.get("status"), "pending")
status_map(status) ==
    CASE status = "todo" -> "pending"
      [] status = "doing" -> "active"
      [] status = "done" -> "done"
      [] OTHER -> "pending"

\* progress of one goal: 1.0 for "done", 0.5 for "doing", else 0.0.
progress(status) ==
    IF status = "done" THEN "1.0"
    ELSE IF status = "doing" THEN "0.5"
    ELSE "0.0"

\* A node that copies the parent_id stored in the goal's row.
tree_node_stored_parent(rs, goal, parent_id) ==
    [id |-> goal, parent_id |-> RowOf(rs, goal).parent_id,
     progress |-> progress(RowOf(rs, goal).status),
     status |-> status_map(RowOf(rs, goal).status)]

\* The node _flatten_tree appends for goal under the parent_id it was given.
tree_node(rs, goal, parent_id) ==
    [id |-> goal, parent_id |-> parent_id,
     progress |-> progress(RowOf(rs, goal).status),
     status |-> status_map(RowOf(rs, goal).status)]

\* A traversal that lists all goals of goal_list before any of their children.
RECURSIVE _flatten_tree_siblings_first(_, _, _, _, _)
_flatten_tree_siblings_first(f, rs, goal_list, parent_id, nodes) ==
    IF goal_list = <<>> THEN nodes
    ELSE LET goal == Head(goal_list)
             own == Append(nodes, tree_node(rs, goal, parent_id))
             rest == _flatten_tree_siblings_first(f, rs, Tail(goal_list), parent_id, own)
         IN IF f.children[goal] # <<>>
            THEN _flatten_tree_siblings_first(f, rs, f.children[goal], goal, rest)
            ELSE rest

\* _flatten_tree(goal_list, parent_id) appending to nodes: each goal's node,
\* then, when the goal has children, its children with the goal's id as
\* parent_id, then the rest of goal_list.
RECURSIVE _flatten_tree(_, _, _, _, _)
_flatten_tree(f, rs, goal_list, parent_id, nodes) ==
    IF goal_list = <<>> THEN nodes
    ELSE LET goal == Head(goal_list)
             own == Append(nodes, tree_node(rs, goal, parent_id))
             below == IF f.children[goal] # <<>>
                      THEN _flatten_tree(f, rs, f.children[goal], goal, own)
                      ELSE own
         IN _flatten_tree(f, rs, Tail(goal_list), parent_id, below)

\* nodes after "_flatten_tree(raw_goals)"
flatten(f, rs) == _flatten_tree(f, rs, f.roots, None, <<>>)

\* root_id: the id of the first node without parent, None when there is none.
root_id(nodes) ==
    IF \E i \in 1..Len(nodes) : nodes[i].parent_id = None
    THEN nodes[CHOOSE i \in 1..Len(nodes) :
                   /\ nodes[i].parent_id = None
                   /\ \A j \in 1..(i - 1) : nodes[j].parent_id # None].id
    ELSE None

\* ---------------------------------------------------------- the goals table
\* The select without its .eq("user_id", user_id) filter.
select_unscoped(user_id) == store

\* select(...).eq("user_id", user_id): the rows of one owner, in table order.
select_by_user(user_id) == SelectSeq(store, LAMBDA r : r.user_id = user_id)

\* get_all_goals(user_id): the owner's rows, through api/db.py build_tree.
get_all_goals(user_id) == api_build_tree(select_by_user(user_id))

\* The table's parent_id foreign key, as the integration tests document it:
\* an insert or update naming a parent row that does not exist is refused,
\* and so is the delete of a row that another row names as its parent.
fk_parent_ok(parent_id) == parent_id = None \/ parent_id \in RowIds(store)

fk_referenced(goal_id) ==
    \E i \in 1..Len(store) : store[i].parent_id = goal_id /\ store[i].id # goal_id

\* What db.update_goal of api/db.py hands to .update(): the updates it was
\* given, a datetime completed_at turned into its isoformat string, and no
\* updated_at (the line that stamps it is commented out).  A field holding
\* Unset (None for parent_id) stands for a key that is not in the dict.
api_update_patch(updates) ==
    [f \in DOMAIN updates \cup {"updated_at"} |->
        IF f = "updated_at" THEN Unset
        ELSE IF f = "completed_at" /\ updates[f] = "datetime" THEN "isoformat"
        ELSE updates[f]]

\* What update_goal of app/db.py hands to .update(): the updates it was
\* given with updates["updated_at"] = "NOW()".
app_update_patch(updates) ==
    [f \in DOMAIN updates \cup {"updated_at"} |->
        IF f = "updated_at" THEN "NOW()" ELSE updates[f]]

\* update(updates).eq("id", goal_id): every matching row with the fields of
\* updates overwritten, in place.
apply_updates(r, updates) ==
    [r EXCEPT !.parent_id = IF updates.parent_id # None THEN updates.parent_id ELSE @,
              !.status = IF updates.status # Unset THEN updates.status ELSE @]

\* An update that also marks the children of a goal set to "done" as done.
table_update_cascade(goal_id, updates) ==
    [i \in 1..Len(store) |->
        IF store[i].id = goal_id THEN apply_updates(store[i], updates)
        ELSE IF store[i].parent_id = goal_id /\ updates.status = "done"
        THEN [store[i] EXCEPT !.status = "done"]
        ELSE store[i]]

table_update(goal_id, updates) ==
    [i \in 1..Len(store) |->
        IF store[i].id = goal_id THEN apply_updates(store[i], updates) ELSE store[i]]

\* delete().eq("id", goal_id)
table_delete(goal_id) == SelectSeq(store, LAMBDA r : r.id # goal_id)

\* Ids a client can put in a URL or a body: those the API has handed out,
\* and a UUID of its own making.
RequestIds == (1..(nextId - 1)) \cup {FakeId}

Response(op, sub, goal_id, code, detail) ==
    [op |-> op, sub |-> sub, goal_id |-> goal_id, code |-> code,
     detail |-> detail, forest |-> EmptyForest, goal |-> None, nodes |-> <<>>]

\* db.update_goal has not been called on its own
NoSent ==
    [updates |-> [parent_id |-> None, status |-> Unset, completed_at |-> Unset],
     api |-> <<>>, app |-> <<>>]

\* no request is in flight
NoRace == [a |-> None, b |-> None, pending |-> {}, applied |-> {}]

Init ==
    /\ store = <<>>
    /\ nextId = 1
    /\ resp = Response("none", NoSub, None, 0, "")
    /\ rows = <<>>
    /\ built = [api_done |-> FALSE, api |-> EmptyForest,
                app_done |-> FALSE, app |-> EmptyForest]
    /\ race = NoRace
    /\ sent = NoSent

\* GET /goals
list_goals(sub, fault) ==
    /\ resp' = IF sub = NoSub
                THEN Response("list", sub, None, 401, "User ID not found in token")
                ELSE IF fault # "none"
                THEN Response("list", sub, None, 500, "unhandled exception")
                ELSE [Response("list", sub, None, 200, "") EXCEPT
                          !.forest = get_all_goals(sub)]
    /\ UNCHANGED <<store, nextId, rows, built, race, sent>>

\* GET /goals/{goal_id}: _find searches the owner's forest depth first.
get_goal(sub, goal_id, fault) ==
    /\ resp' = IF sub = NoSub
                THEN Response("get", sub, goal_id, 401, "User ID not found in token")
                ELSE IF fault # "none"
                THEN Response("get", sub, goal_id, 500, "unhandled exception")
                ELSE IF goal_id \in Reachable(get_all_goals(sub))
                THEN [Response("get", sub, goal_id, 200, "") EXCEPT !.goal = goal_id]
                ELSE Response("get", sub, goal_id, 404, "Goal not found")
    /\ UNCHANGED <<store, nextId, rows, built, race, sent>>

\* GET /api/tree: the owner's forest flattened; goal carries root_id.
get_tree(sub, fault) ==
    /\ resp' = IF sub = NoSub
                THEN Response("tree", sub, None, 401, "User ID not found in token")
                ELSE IF fault # "none"
                THEN Response("tree", sub, None, 500, "unhandled exception")
                ELSE LET nodes == flatten(get_all_goals(sub), select_by_user(sub))
                     IN [Response("tree", sub, None, 200, "") EXCEPT
                            !.nodes = nodes, !.goal = root_id(nodes)]
    /\ UNCHANGED <<store, nextId, rows, built, race, sent>>

\* POST /goals with a model that accepts a user_id field in the body and
\* stores it as the owner.
create_goal_trusts_body(sub, parent_id, body_user_id, fault) ==
    /\ LET raised == IF fault # "none" THEN fault
                      ELSE IF ~fk_parent_ok(parent_id) THEN "constraint"
                      ELSE "none"
            owner == IF body_user_id # Unset THEN body_user_id ELSE sub
            row == [id |-> nextId, user_id |-> owner, parent_id |-> parent_id,
                    status |-> "todo"]
        IN IF sub = NoSub
           THEN /\ resp' = Response("create", sub, None, 401, "User ID not found in token")
                /\ UNCHANGED <<store, nextId>>
           ELSE IF raised = "constraint"
           THEN /\ resp' = Response("create", sub, None, 400,
                                    "Invalid data or constraint violation")
                /\ UNCHANGED <<store, nextId>>
           ELSE IF raised = "timeout"
           THEN /\ resp' = Response("create", sub, None, 503,
                                    "Service temporarily unavailable")
                /\ UNCHANGED <<store, nextId>>
           ELSE IF raised = "error"
           THEN /\ resp' = Response("create", sub, None, 500, "Internal server error")
                /\ UNCHANGED <<store, nextId>>
           ELSE /\ nextId <= MaxGoals
                /\ store' = Append(store, row)
                /\ nextId' = nextId + 1
                /\ resp' = [Response("create", sub, None, 201, "") EXCEPT !.goal = row.id]
    /\ UNCHANGED <<rows, built, race, sent>>

\* POST /goals.  body_user_id is the value of a "user_id" field in the body,
\* Unset when the body has only GoalCreate's fields: GoalCreate forbids extra
\* fields, so such a body is refused with 422 before the handler runs.
\* db.create_goal inserts {user_id, title, parent_id if truthy, ...}, user_id
\* being the token's sub; an exception of the table is mapped by its message.
\* When the insert answers without a row (whether or not it stored one),
\* db.create_goal returns {} and the handler sends it with the 201.
create_goal(sub, parent_id, body_user_id, fault) ==
    /\ LET raised == IF fault # "none" THEN fault
                      ELSE IF ~fk_parent_ok(parent_id) THEN "constraint"
                      ELSE "none"
            row == [id |-> nextId, user_id |-> sub, parent_id |-> parent_id,
                    status |-> "todo"]
        IN IF body_user_id # Unset
           THEN /\ resp' = Response("create", sub, None, 422, "extra_forbidden")
                /\ UNCHANGED <<store, nextId>>
           ELSE IF sub = NoSub
           THEN /\ resp' = Response("create", sub, None, 401, "User ID not found in token")
                /\ UNCHANGED <<store, nextId>>
           ELSE IF raised = "constraint"
           THEN /\ resp' = Response("create", sub, None, 400,
                                    "Invalid data or constraint violation")
                /\ UNCHANGED <<store, nextId>>
           ELSE IF raised = "timeout"
           THEN /\ resp' = Response("create", sub, None, 503,
                                    "Service temporarily unavailable")
                /\ UNCHANGED <<store, nextId>>
           ELSE IF raised = "error"
           THEN /\ resp' = Response("create", sub, None, 500, "Internal server error")
                /\ UNCHANGED <<store, nextId>>
           ELSE IF raised = "norow"
           THEN /\ resp' = Response("create", sub, None, 201, "")
                /\ \E persisted \in {FALSE, fk_parent_ok(parent_id) /\ nextId <= MaxGoals} :
                      IF persisted
                      THEN store' = Append(store, row) /\ nextId' = nextId + 1
                      ELSE UNCHANGED <<store, nextId>>
           ELSE /\ nextId <= MaxGoals
                /\ store' = Append(store, row)
                /\ nextId' = nextId + 1
                /\ resp' = [Response("create", sub, None, 201, "") EXCEPT !.goal = row.id]
    /\ UNCHANGED <<rows, built, race, sent>>

\* PATCH /goals/{goal_id}: the handler never reads user["sub"]; updates holds
\* the payload fields that are not None; db.update_goal filters by id alone.
\* What the table returns for an update that sets no column is the client
\* library's business: the matched rows, or nothing (echoed = FALSE).
update_goal_request(sub, goal_id, updates, fault) ==
    /\ \E echoed \in IF updates.parent_id = None /\ updates.status = Unset
                      THEN BOOLEAN ELSE {TRUE} :
        LET matched == goal_id \in RowIds(store)
            raised == IF fault # "none" THEN fault
                      ELSE IF matched /\ ~fk_parent_ok(updates.parent_id) THEN "constraint"
                      ELSE "none"
        IN IF raised = "timeout"
           THEN /\ resp' = Response("update", sub, goal_id, 503,
                                    "Service temporarily unavailable")
                /\ UNCHANGED store
           ELSE IF raised # "none"
           THEN /\ resp' = Response("update", sub, goal_id, 500, "Internal server error")
                /\ UNCHANGED store
           ELSE IF ~matched \/ ~echoed
           THEN /\ resp' = Response("update", sub, goal_id, 404, "Goal not found")
                /\ UNCHANGED store
           ELSE /\ store' = table_update(goal_id, api_update_patch(updates))
                /\ resp' = [Response("update", sub, goal_id, 200, "") EXCEPT !.goal = goal_id]
    /\ UNCHANGED <<nextId, rows, built, sent>>

\* PATCH /goals/{goal_id} with no other request in flight
update_goal(sub, goal_id, updates, fault) ==
    /\ update_goal_request(sub, goal_id, updates, fault)
    /\ UNCHANGED <<race, sent>>

\* DELETE /goals/{goal_id} that answers 204 whether or not a row matched.
delete_goal_reports_success(sub, goal_id, fault) ==
    /\ LET matched == goal_id \in RowIds(store)
            raised == IF fault # "none" THEN fault
                      ELSE IF matched /\ fk_referenced(goal_id) THEN "constraint"
                      ELSE "none"
        IN IF raised # "none"
           THEN /\ resp' = Response("delete", sub, goal_id, 500, "Internal server error")
                /\ UNCHANGED store
           ELSE IF ~matched
           THEN /\ resp' = Response("delete", sub, goal_id, 204, "")
                /\ UNCHANGED store
           ELSE /\ store' = table_delete(goal_id)
                /\ resp' = Response("delete", sub, goal_id, 204, "")
    /\ UNCHANGED <<nextId, rows, built, race, sent>>

\* DELETE /goals/{goal_id}: the handler never reads user["sub"];
\* db.delete_goal filters by id alone; every exception becomes a 500.
delete_goal(sub, goal_id, fault) ==
    /\ LET matched == goal_id \in RowIds(store)
            raised == IF fault # "none" THEN fault
                      ELSE IF matched /\ fk_referenced(goal_id) THEN "constraint"
                      ELSE "none"
        IN IF raised # "none"
           THEN /\ resp' = Response("delete", sub, goal_id, 500, "Internal server error")
                /\ UNCHANGED store
           ELSE IF ~matched
           THEN /\ resp' = Response("delete", sub, goal_id, 404, "Goal not found")
                /\ UNCHANGED store
           ELSE /\ store' = table_delete(goal_id)
                /\ resp' = Response("delete", sub, goal_id, 204, "")
    /\ UNCHANGED <<nextId, rows, built, race, sent>>

\* PATCH payloads: every combination of the two modelled fields, and those
\* that touch parent_id alone.
Updates == [parent_id : {None} \cup RequestIds, status : PatchStatus]

ParentUpdates == [parent_id : {None} \cup RequestIds, status : {Unset}]

\* PATCH bodies.  parent_id is left out of the JSON (Omitted), sent as null
\* (None) or sent as an id; status is left out or null (Unset) or sent.
Payloads == [parent_id : {Omitted, None} \cup RequestIds, status : PatchStatus]

ParentPayloads == [parent_id : {Omitted, None} \cup RequestIds, status : {Unset}]

\* The updates dict the PATCH handler builds from a body: GoalUpdate gives a
\* field that is left out its default None, and the handler keeps the fields
\* that are not None.
updates_of(payload) ==
    [parent_id |-> IF payload.parent_id = Omitted THEN None ELSE payload.parent_id,
     status |-> payload.status]

\* The hierarchy operations: the API over a table that answers every call,
\* used by clients whose token names a user, with PATCHes that reparent.
Next ==
    \/ \E sub \in Users : list_goals(sub, "none")
    \/ \E sub \in Users : get_tree(sub, "none")
    \/ \E sub \in Users, goal_id \in RequestIds : get_goal(sub, goal_id, "none")
    \/ \E sub \in Users, parent_id \in {None} \cup RequestIds,
          body_user_id \in BodyUserIds :
           create_goal(sub, parent_id, body_user_id, "none")
    \/ \E sub \in Users, goal_id \in RequestIds, payload \in ParentPayloads :
           update_goal(sub, goal_id, updates_of(payload), "none")
    \/ \E sub \in Users, goal_id \in RequestIds : delete_goal(sub, goal_id, "none")

Spec == Init /\ [][Next]_vars

\* The hierarchy operations when a single owner uses the API.
OwnerNext ==
    \/ list_goals("u1", "none")
    \/ get_tree("u1", "none")
    \/ \E goal_id \in RequestIds : get_goal("u1", goal_id, "none")
    \/ \E parent_id \in {None} \cup RequestIds, body_user_id \in BodyUserIds :
           create_goal("u1", parent_id, body_user_id, "none")
    \/ \E goal_id \in RequestIds, payload \in ParentPayloads :
           update_goal("u1", goal_id, updates_of(payload), "none")
    \/ \E goal_id \in RequestIds : delete_goal("u1", goal_id, "none")

OwnerSpec == Init /\ [][OwnerNext]_vars

\* A single owner whose PATCHes may carry any modelled field.
StatusNext ==
    \/ list_goals("u1", "none")
    \/ \E parent_id \in {None} \cup RequestIds : create_goal("u1", parent_id, Unset, "none")
    \/ \E goal_id \in RequestIds, payload \in Payloads :
           update_goal("u1", goal_id, updates_of(payload), "none")
    \/ \E goal_id \in RequestIds : delete_goal("u1", goal_id, "none")

StatusSpec == Init /\ [][StatusNext]_vars

\* The whole API: the table may fail any call, a token may lack "sub", and a
\* PATCH may carry any modelled field.
FaultNext ==
    \/ \E sub \in Subjects, fault \in ReadFaults : list_goals(sub, fault)
    \/ \E sub \in Subjects, fault \in ReadFaults : get_tree(sub, fault)
    \/ \E sub \in Subjects, goal_id \in RequestIds, fault \in ReadFaults :
           get_goal(sub, goal_id, fault)
    \/ \E sub \in Subjects, parent_id \in {None} \cup RequestIds,
          body_user_id \in BodyUserIds, fault \in CreateFaults :
           create_goal(sub, parent_id, body_user_id, fault)
    \/ \E sub \in Subjects, goal_id \in RequestIds, payload \in Payloads,
          fault \in WriteFaults :
           update_goal(sub, goal_id, updates_of(payload), fault)
    \/ \E sub \in Subjects, goal_id \in RequestIds, fault \in WriteFaults :
           delete_goal(sub, goal_id, fault)

FaultSpec == Init /\ [][FaultNext]_vars

\* Two PATCH requests of one owner in flight at once.  A handler is one call
\* of db.update_goal, a single UPDATE of the table with no check before it, so
\* a request is one step and the two may run in either order.
RaceRequests == {"a", "b"}

\* The owner sends PATCH /goals/a {parent_id: b} and PATCH /goals/b
\* {parent_id: a} for two goals of a stored forest, neither above the other.
SubmitRace ==
    /\ race = NoRace
    /\ \A id \in RowIds(store) : WellFormed(store, id)
    /\ \E a \in RowIds(store), b \in RowIds(store) :
          /\ a # b
          /\ a \notin Ancestors(store, b)
          /\ b \notin Ancestors(store, a)
          /\ race' = [a |-> a, b |-> b, pending |-> RaceRequests, applied |-> {}]
    /\ UNCHANGED <<store, nextId, resp, rows, built, sent>>

\* One of the two requests reaches its handler.
ExecuteRace ==
    /\ \E r \in race.pending :
          LET goal_id == IF r = "a" THEN race.a ELSE race.b
              parent_id == IF r = "a" THEN race.b ELSE race.a
          IN /\ update_goal_request("u1", goal_id,
                     updates_of([parent_id |-> parent_id, status |-> Unset]), "none")
             /\ race' = [race EXCEPT !.pending = @ \ {r},
                                     !.applied = IF resp'.code = 200
                                                 THEN @ \cup {r} ELSE @]

RaceNext ==
    \/ race = NoRace /\ OwnerNext
    \/ SubmitRace
    \/ ExecuteRace

RaceSpec == Init /\ [][RaceNext]_vars

\* -------------------------------------------------------------- PatchSpec
\* The statuses of GoalStatus.
GoalStatus == {"todo", "in_progress", "blocked", "done"}

\* update_goal of either data layer called with any updates dict: a PATCH
\* that touches only status, only parent_id, a datetime field, or any mix.
PatchInit ==
    /\ store = <<>>
    /\ nextId = 1
    /\ resp = Response("none", NoSub, None, 0, "")
    /\ rows = <<>>
    /\ built = [api_done |-> FALSE, api |-> EmptyForest,
                app_done |-> FALSE, app |-> EmptyForest]
    /\ race = NoRace
    /\ \E parent_id \in {None} \cup (1..FakeId), status \in {Unset} \cup GoalStatus,
          completed_at \in {Unset, "datetime"} :
          sent = [NoSent EXCEPT !.updates = [parent_id |-> parent_id, status |-> status,
                                             completed_at |-> completed_at]]

\* api/db.py update_goal builds the patch it forwards
ApiUpdatePatch ==
    /\ sent.api = <<>>
    /\ sent' = [sent EXCEPT !.api = <<api_update_patch(sent.updates)>>]
    /\ UNCHANGED <<store, nextId, resp, rows, built, race>>

\* app/db.py update_goal builds the patch it forwards
AppUpdatePatch ==
    /\ sent.app = <<>>
    /\ sent' = [sent EXCEPT !.app = <<app_update_patch(sent.updates)>>]
    /\ UNCHANGED <<store, nextId, resp, rows, built, race>>

PatchNext == ApiUpdatePatch \/ AppUpdatePatch

PatchSpec == PatchInit /\ [][PatchNext]_vars

\* ------------------------------------------------------------- TreeSpec
\* A parent_id that names no row of any input.
DanglingId == MaxRows + 1

Row == [id : 1..MaxRows, parent_id : {None} \cup (1..MaxRows) \cup {DanglingId}]

\* Row lists with pairwise distinct ids, in every order.
RowLists ==
    UNION {{rs \in [1..n -> Row] : \A i, j \in 1..n : rs[i].id = rs[j].id => i = j}
           : n \in 0..MaxRows}

TreeInit ==
    /\ store = <<>>
    /\ nextId = 1
    /\ resp = Response("none", NoSub, None, 0, "")
    /\ rows \in RowLists
    /\ built = [api_done |-> FALSE, api |-> EmptyForest,
                app_done |-> FALSE, app |-> EmptyForest]
    /\ race = NoRace
    /\ sent = NoSent

ApiBuildTree ==
    /\ ~built.api_done
    /\ built' = [built EXCEPT !.api_done = TRUE, !.api = api_build_tree(rows)]
    /\ UNCHANGED <<store, nextId, resp, rows, race, sent>>

AppBuildTree ==
    /\ ~built.app_done
    /\ built' = [built EXCEPT !.app_done = TRUE, !.app = app_build_tree(rows)]
    /\ UNCHANGED <<store, nextId, resp, rows, race, sent>>

TreeNext == ApiBuildTree \/ AppBuildTree

TreeSpec == TreeInit /\ [][TreeNext]_vars

\* ----------------------------------------------------------- FlattenSpec
\* Status values a stored row may hold: those of GoalStatus, the older
\* "doing" that _flatten_tree tests for, and "null" for a row without status.
Statuses == <<"done", "doing", "in_progress", "todo", "blocked", "null">>

\* A parent_id that names no row of any flattened input.
FlatDangling == MaxFlat + 1

\* A row list for GET /api/tree: n rows with ids 1..n in list order, parent
\* ids ps, and statuses taken in turn from Statuses starting after place k.
FlatRows(n, ps, k) ==
    [i \in 1..n |-> [id |-> i, parent_id |-> ps[i],
                     status |-> Statuses[((i + k) % Len(Statuses)) + 1]]]

\* Every list of up to MaxFlat rows with any parent_id (none, a row of the
\* list, the row itself, a missing row).
FlatInit ==
    /\ store = <<>>
    /\ nextId = 1
    /\ resp = Response("none", NoSub, None, 0, "")
    /\ \E n \in 0..MaxFlat :
          \E ps \in [1..n -> {None} \cup (1..n) \cup {FlatDangling}],
             k \in 1..Len(Statuses) :
              rows = FlatRows(n, ps, k)
    /\ built = [api_done |-> FALSE, api |-> EmptyForest,
                app_done |-> FALSE, app |-> EmptyForest]
    /\ race = NoRace
    /\ sent = NoSent

\* get_tree on the rows of one owner: db.get_all_goals builds the forest
\* (build_tree of api/db.py, or of app/db.py), _flatten_tree lists its nodes.
\* The response keeps the forest that was flattened.
FlattenTree ==
    /\ \E raw_goals \in {api_build_tree(rows), app_build_tree(rows)} :
          LET nodes == flatten(raw_goals, rows)
          IN resp' = [Response("tree", "u1", None, 200, "") EXCEPT
                         !.forest = raw_goals, !.nodes = nodes,
                         !.goal = root_id(nodes)]
    /\ UNCHANGED <<store, nextId, rows, built, race, sent>>

FlattenNext == FlattenTree

FlattenSpec == FlatInit /\ [][FlattenNext]_vars

\* ===================================================================
\* Claims
\* ===================================================================

\* C1: after any sequence of create, update and delete requests the stored
\* goals form a forest: following stored parent_id links from any stored goal
\* never comes back to a goal already on the path.
C1_StoredGoalsFormForest ==
    \A id \in RowIds(store) : ~OnCycle(store, id)

\* C2: an update that sets goal A's parent_id to A itself or to a descendant
\* of A is rejected, and the table is the same after the call as before it.
C2_ReparentingRejected ==
    [][\A sub \in Users, goal_id \in RequestIds, updates \in ParentUpdates :
         ( /\ update_goal(sub, goal_id, updates, "none")
           /\ goal_id \in RowIds(store)
           /\ updates.parent_id # None
           /\ \/ updates.parent_id = goal_id
              \/ goal_id \in Ancestors(store, updates.parent_id) )
         => (resp'.code >= 400 /\ store' = store)]_vars

\* C3: for every row list with distinct ids, the forest app/db.py build_tree
\* returns holds every input row exactly once: each row is reachable from the
\* roots and sits in exactly one slot (the root list or one children list).
C3_AppForestPartition ==
    built.app_done =>
        /\ Reachable(built.app) = RowIds(rows)
        /\ \A id \in RowIds(rows) : Occurrences(built.app, id) = 1

C3_Witness ==
    /\ built.app_done
    /\ Len(rows) = MaxRows
    /\ \E id \in RowIds(rows) : OnCycle(rows, id) /\ ParentOf(rows, id) # id
    /\ \E id \in RowIds(rows) : ParentOf(rows, id) = DanglingId

\* C4: app/db.py build_tree puts every row that lies on a parent_id cycle
\* (a self-parent included) in the root list, and keeps every row of a
\* well-formed chain where its parent_id says: in the root list when it has
\* no parent, otherwise in its parent's children and not in the root list.
C4_AppCycleContainment ==
    built.app_done =>
        \A id \in RowIds(rows) :
            /\ OnCycle(rows, id) => id \in SeqSet(built.app.roots)
            /\ WellFormed(rows, id) =>
                 IF ParentOf(rows, id) = None
                 THEN id \in SeqSet(built.app.roots)
                 ELSE /\ id \in SeqSet(built.app.children[ParentOf(rows, id)])
                      /\ id \notin SeqSet(built.app.roots)

C4_Witness ==
    /\ built.app_done
    /\ \E id \in RowIds(rows) : OnCycle(rows, id)
    /\ \E id \in RowIds(rows) :
           /\ WellFormed(rows, id)
           /\ ParentOf(rows, id) # None
           /\ id \in SeqSet(built.app.children[ParentOf(rows, id)])

\* C5: the forest GET /goals returns holds every goal stored for the owner
\* exactly once, as a root or below a root.
C5_ListLosesNoGoal ==
    (resp.op = "list" /\ resp.code = 200) =>
        \A id \in RowIds(select_by_user(resp.sub)) :
            /\ id \in Reachable(resp.forest)
            /\ Occurrences(resp.forest, id) = 1

\* C6: in both tree builders every row whose parent_id is empty, or names no
\* row of the input, is in the returned root list.
C6_DanglingRowsAreRoots ==
    \A id \in RowIds(rows) :
        (ParentOf(rows, id) = None \/ ParentOf(rows, id) \notin RowIds(rows)) =>
            /\ built.api_done => id \in SeqSet(built.api.roots)
            /\ built.app_done => id \in SeqSet(built.app.roots)

C6_Witness ==
    /\ built.api_done
    /\ built.app_done
    /\ \E id \in RowIds(rows) :
           /\ ParentOf(rows, id) # None
           /\ ParentOf(rows, id) \notin RowIds(rows)
           /\ id \in SeqSet(built.api.roots)
           /\ id \in SeqSet(built.app.roots)
    /\ \E id \in RowIds(rows) : ParentOf(rows, id) = None

\* C7: every stored goal's parent_id is empty or is the id of a stored goal
\* of the same owner.
C7_NoDanglingParent ==
    \A i \in 1..Len(store) :
        \/ store[i].parent_id = None
        \/ \E j \in 1..Len(store) :
               /\ store[j].id = store[i].parent_id
               /\ store[j].user_id = store[i].user_id

\* C8: a create whose parent_id names no stored goal of the requesting owner
\* is rejected and leaves the table without a new row.
C8_CreateInvalidParentRejected ==
    [][\A sub \in Users, parent_id \in RequestIds :
         ( /\ create_goal(sub, parent_id, Unset, "none")
           /\ ~\E i \in 1..Len(store) :
                  store[i].id = parent_id /\ store[i].user_id = sub )
         => (resp'.code >= 400 /\ store' = store)]_vars

\* The error kind of the specification's taxonomy that a response carries.
ErrorKind(r) ==
    CASE r.code = 401 -> "AuthError"
      [] r.code = 404 -> "NotFound"
      [] r.code = 422 -> "ValidationError"
      [] r.code = 400 -> "StoreError:permanent"
      [] r.code = 503 -> "StoreError:transient"
      [] r.code = 500 -> "StoreError"
      [] OTHER -> "none"

\* C9: deleting a goal that has a stored child (another goal naming it as
\* parent) ends in the HasChildrenError outcome (not a success, not NotFound)
\* and leaves the table unchanged.
C9_DeleteWithChildrenRejected ==
    [][\A sub \in Users, goal_id \in RequestIds :
         ( /\ delete_goal(sub, goal_id, "none")
           /\ goal_id \in RowIds(store)
           /\ fk_referenced(goal_id) )
         => (ErrorKind(resp') = "HasChildrenError" /\ store' = store)]_vars

\* C10: GET /goals/{id} by owner X for a goal that is not X's answers
\* "404 Goal not found", the very response X gets for an id nobody has, and
\* GET /goals by X holds no goal of another owner anywhere in its forest.
C10_OwnerIsolationOnRead ==
    /\ ( /\ resp.op = "get"
         /\ ~\E i \in 1..Len(store) :
                store[i].id = resp.goal_id /\ store[i].user_id = resp.sub )
       => resp = Response("get", resp.sub, resp.goal_id, 404, "Goal not found")
    /\ (resp.op = "list" /\ resp.code = 200) =>
         \A id \in RowIds(store) :
             Occurrences(resp.forest, id) > 0 => RowOf(store, id).user_id = resp.sub

C10_Witness ==
    /\ resp.op = "get"
    /\ resp.code = 404
    /\ \E i \in 1..Len(store) :
           store[i].id = resp.goal_id /\ store[i].user_id # resp.sub

\* C11: PATCH /goals/{id} sent by owner X to set a field of a goal stored
\* under another owner is refused and leaves the whole table, and so every
\* stored field of that goal, unchanged.  (The refusal asked for is "404 Goal
\* not found"; the formula only asks that the answer is not the 200 success.)
C11_CrossOwnerUpdateRejected ==
    [][\A sub \in Users, goal_id \in RequestIds, updates \in ParentUpdates :
         ( /\ update_goal(sub, goal_id, updates, "none")
           /\ updates.parent_id # None
           /\ goal_id \in RowIds(store)
           /\ RowOf(store, goal_id).user_id # sub )
         => (resp'.code # 200 /\ store' = store)]_vars

\* C12: DELETE /goals/{id} sent by owner X for a goal stored under another
\* owner removes no row and does not answer 204.
C12_CrossOwnerDeleteRejected ==
    [][\A sub \in Users, goal_id \in RequestIds :
         ( /\ delete_goal(sub, goal_id, "none")
           /\ goal_id \in RowIds(store)
           /\ RowOf(store, goal_id).user_id # sub )
         => (store' = store /\ resp'.code # 204)]_vars

\* C13: a row enters the table only through a POST /goals that answers 201,
\* and its user_id is the sub of that request's token; a body that carries a
\* user_id field is refused and stores nothing; and no step, PATCH included,
\* changes the user_id of a row that stays in the table.
C13_OwnerBinding ==
    [][ /\ \A id \in RowIds(store') :
             IF id \in RowIds(store)
             THEN RowOf(store', id).user_id = RowOf(store, id).user_id
             ELSE /\ resp'.op = "create"
                  /\ resp'.code = 201
                  /\ resp'.goal = id
                  /\ RowOf(store', id).user_id = resp'.sub
        /\ \A sub \in Users, parent_id \in {None} \cup RequestIds,
              body_user_id \in Users :
             create_goal(sub, parent_id, body_user_id, "none")
             => (ErrorKind(resp') = "ValidationError" /\ store' = store) ]_vars

\* a goal that another user has just updated still belongs to its creator
C13_Witness ==
    /\ resp.op = "update"
    /\ resp.code = 200
    /\ resp.goal_id \in RowIds(store)
    /\ RowOf(store, resp.goal_id).user_id # resp.sub
    /\ RowOf(store, resp.goal_id).parent_id # None

\* C14: a request whose token has no sub claim fails and leaves the table
\* alone, whichever of the six operations it is: list, get, create and the
\* flattened tree answer the 401 AuthError (a create whose body is refused
\* with 422 never reaches the handler), and a PATCH that sets a field and a
\* DELETE do not succeed.  (The failure asked for is the 401 for these two as
\* well; the formula only asks them for an error.)
C14_MissingSubjectRefused ==
    [][ /\ ( /\ resp'.sub = NoSub
             /\ resp'.op \in {"list", "get", "create", "tree"}
             /\ resp'.code # 422 )
           => (ErrorKind(resp') = "AuthError" /\ store' = store)
        /\ \A goal_id \in RequestIds, updates \in Updates, fault \in WriteFaults :
             ( /\ update_goal(NoSub, goal_id, updates, fault)
               /\ (updates.parent_id # None \/ updates.status # Unset) )
             => (resp'.code >= 400 /\ store' = store)
        /\ \A goal_id \in RequestIds, fault \in WriteFaults :
             delete_goal(NoSub, goal_id, fault)
             => (resp'.code >= 400 /\ store' = store) ]_vars

\* C15: when PATCH /goals/a {parent_id: b} and PATCH /goals/b {parent_id: a},
\* sent for two goals of a valid forest with neither above the other, have
\* both run, in whichever order, it is not the case that both were applied
\* and a and b are each other's stored parent.
C15_RaceCreatesNoCycle ==
    (race.a # None /\ race.pending = {} /\ race.applied = RaceRequests) =>
        ~( /\ ParentOf(store, race.a) = race.b
           /\ ParentOf(store, race.b) = race.a )

\* C16: api/db.py build_tree returns for every row list, cyclic ones included,
\* and its root list holds, once each, exactly the rows whose parent_id is
\* empty or names no row of the input; when every row lies on a parent_id
\* cycle the root list is empty.
C16_ApiRootsExact ==
    built.api_done =>
        /\ SeqSet(built.api.roots) =
               {id \in RowIds(rows) :
                    ParentOf(rows, id) = None \/ ParentOf(rows, id) \notin RowIds(rows)}
        /\ \A id \in RowIds(rows) : Count(built.api.roots, id) <= 1
        /\ (\A id \in RowIds(rows) : OnCycle(rows, id)) => built.api.roots = <<>>

\* a list of two or more rows, all on cycles, one of them its own parent
C16_Witness ==
    /\ built.api_done
    /\ Len(rows) >= 2
    /\ \A id \in RowIds(rows) : OnCycle(rows, id)
    /\ \E id \in RowIds(rows) : ParentOf(rows, id) = id
    /\ built.api.roots = <<>>

\* Ids below goal in forest f.
Descendants(f, goal) == ReachFrom(f, SeqSet(f.children[goal]), {})

\* The ids of list s appear in nodes in the order of s.
InListOrder(nodes, s) ==
    \A k \in 1..Len(s), l \in 1..Len(s) :
        k < l => \E i \in 1..Len(nodes), j \in 1..Len(nodes) :
                     i < j /\ nodes[i].id = s[k] /\ nodes[j].id = s[l]

\* C17: the node list of GET /api/tree is a pre-order walk of the forest
\* build_tree returned: each node is followed at once by all its descendants
\* and by nothing else until they are all listed, and roots and the children
\* of one node appear in the order of their build_tree lists.
C17_FlattenPreOrder ==
    (resp.op = "tree" /\ resp.code = 200) =>
        LET nodes == resp.nodes
            f == resp.forest
        IN /\ \A i \in 1..Len(nodes) :
                  LET below == Descendants(f, nodes[i].id)
                      last == i + Cardinality(below)
                  IN /\ last <= Len(nodes)
                     /\ {nodes[j].id : j \in (i + 1)..last} = below
           /\ InListOrder(nodes, f.roots)
           /\ \A goal \in Reachable(f) : InListOrder(nodes, f.children[goal])
           /\ {nodes[i].id : i \in 1..Len(nodes)} = Reachable(f)

\* rows 1, 2 (child of 1), 3 (child of 1), 4 (child of 2) give 1, 2, 4, 3
C17_Witness ==
    /\ resp.op = "tree"
    /\ Len(rows) = 4
    /\ [i \in 1..4 |-> rows[i].parent_id] = <<None, 1, 1, 2>>
    /\ [i \in 1..Len(resp.nodes) |-> resp.nodes[i].id] = <<1, 2, 4, 3>>

\* C18: in the node list of GET /api/tree a node's parent_id is the id of
\* the node whose children list held it, and is empty for every root of the
\* forest, whatever parent_id the root's row stores.
C18_FlattenParentIsInMemory ==
    (resp.op = "tree" /\ resp.code = 200) =>
        \A i \in 1..Len(resp.nodes) :
            LET n == resp.nodes[i]
            IN IF n.id \in SeqSet(resp.forest.roots)
               THEN n.parent_id = None
               ELSE /\ n.parent_id \in DOMAIN resp.forest.children
                    /\ n.id \in SeqSet(resp.forest.children[n.parent_id])

\* a node list with a root whose row names a missing parent, a root whose row
\* lies on a cycle, and a node below a root
C18_Witness ==
    /\ resp.op = "tree"
    /\ \E i \in 1..Len(resp.nodes) :
           /\ resp.nodes[i].parent_id = None
           /\ ParentOf(rows, resp.nodes[i].id) \notin RowIds(rows) \cup {None}
    /\ \E i \in 1..Len(resp.nodes) :
           /\ resp.nodes[i].parent_id = None
           /\ OnCycle(rows, resp.nodes[i].id)
    /\ \E i \in 1..Len(resp.nodes) : resp.nodes[i].parent_id # None

\* C19: a node of GET /api/tree has progress 1.0 when its goal's status is
\* "done", 0.5 when it is "doing" or "in_progress", and 0.0 otherwise.
C19_ProgressFromStatus ==
    (resp.op = "tree" /\ resp.code = 200) =>
        \A i \in 1..Len(resp.nodes) :
            LET status == RowOf(rows, resp.nodes[i].id).status
            IN resp.nodes[i].progress =
                   IF status = "done" THEN "1.0"
                   ELSE IF status \in {"doing", "in_progress"} THEN "0.5"
                   ELSE "0.0"

\* C20: the node list of GET /api/tree holds exactly one node per goal stored
\* for the owner: every stored goal of the owner has a node, no id is listed
\* twice, and there is no other node.
C20_FlattenComplete ==
    (resp.op = "tree" /\ resp.code = 200) =>
        /\ Len(resp.nodes) = Len(select_by_user(resp.sub))
        /\ \A id \in RowIds(select_by_user(resp.sub)) :
               Cardinality({i \in 1..Len(resp.nodes) : resp.nodes[i].id = id}) = 1

\* C21: a PATCH that answers 200 changes, in the row it names, the fields it
\* supplies to the supplied values and no other field, and changes no other
\* row: marking a parent done leaves every child's status as it was.
C21_PartialUpdateFrame ==
    [][(resp'.op = "update" /\ resp'.code = 200) =>
         \A updates \in Updates :
             update_goal("u1", resp'.goal_id, updates, "none") =>
             /\ Len(store') = Len(store)
             /\ \A i \in 1..Len(store) :
                    IF store[i].id = resp'.goal_id
                    THEN /\ store'[i].id = store[i].id
                         /\ store'[i].user_id = store[i].user_id
                         /\ store'[i].parent_id =
                                IF updates.parent_id # None
                                THEN updates.parent_id ELSE store[i].parent_id
                         /\ store'[i].status =
                                IF updates.status # Unset
                                THEN updates.status ELSE store[i].status
                    ELSE store'[i] = store[i]]_vars

\* a parent has just been marked done and a child of it is still todo
C21_Witness ==
    /\ resp.op = "update"
    /\ resp.code = 200
    /\ resp.goal_id \in RowIds(store)
    /\ RowOf(store, resp.goal_id).status = "done"
    /\ \E i \in 1..Len(store) :
           /\ store[i].id # resp.goal_id
           /\ store[i].parent_id = resp.goal_id
           /\ store[i].status = "todo"

\* C22: DELETE answers 204 (db.delete_goal returned True) exactly when it
\* removed a row, and the removed row is the one named; a DELETE or PATCH
\* whose id matches no row answers "404 Goal not found" (False, or an empty
\* result, at the data layer) and leaves the table unchanged, so a second
\* DELETE of a goal just deleted answers 404.
C22_NoMatchMutations ==
    [][ /\ resp'.op = "delete" =>
             /\ (resp'.code = 204) <=> (Len(store') = Len(store) - 1)
             /\ resp'.code = 204 =>
                    /\ resp'.goal_id \in RowIds(store)
                    /\ resp'.goal_id \notin RowIds(store')
             /\ resp'.code # 204 => store' = store
        /\ (resp'.op \in {"delete", "update"} /\ resp'.goal_id \notin RowIds(store)) =>
             (ErrorKind(resp') = "NotFound" /\ store' = store) ]_vars

\* the second DELETE of a goal: its id was handed out, its row is gone
C22_Witness ==
    /\ resp.op = "delete"
    /\ resp.code = 404
    /\ resp.goal_id \in 1..(nextId - 1)
    /\ resp.goal_id \notin RowIds(store)

\* C23: on every operation a failed call of the table ends in a classified
\* store error; no response is the server's answer to an exception that left
\* the handler uncaught.
C23_StoreFailuresClassified ==
    resp.detail # "unhandled exception"

\* C24: a timeout or network failure of the table during POST, PATCH or
\* DELETE /goals is answered with the transient store error (503), which is
\* neither NotFound nor the answer a constraint failure gets on that path.
C24_TimeoutIsTransient ==
    [][ /\ \A sub \in Users, parent_id \in {None} \cup RequestIds :
             create_goal(sub, parent_id, Unset, "timeout")
             => ErrorKind(resp') = "StoreError:transient"
        /\ \A sub \in Subjects, goal_id \in RequestIds, updates \in Updates :
             update_goal(sub, goal_id, updates, "timeout")
             => ErrorKind(resp') = "StoreError:transient"
        /\ \A sub \in Subjects, goal_id \in RequestIds :
             delete_goal(sub, goal_id, "timeout")
             => ErrorKind(resp') = "StoreError:transient" ]_vars

\* C25: POST /goals answers 201 only with the row the table stored and
\* returned; an insert that returns no row never ends in a 201 whose body is
\* an empty goal.
C25_NoEmptySuccess ==
    (resp.op = "create" /\ resp.code = 201) =>
        /\ resp.goal # None
        /\ resp.goal \in RowIds(store)

\* C26: whatever updates update_goal is called with, the patch it forwards to
\* the table holds an updated_at stamp, in api/db.py and in app/db.py.
C26_UpdatedAtStamped ==
    /\ sent.api # <<>> => sent.api[1].updated_at # Unset
    /\ sent.app # <<>> => sent.app[1].updated_at # Unset

\* C28: a PATCH whose body sets parent_id to null on a goal that has a parent
\* succeeds and leaves the goal without parent (a body that leaves parent_id
\* out keeps the parent, so the two bodies differ in effect).
C28_ExplicitNullClears ==
    [][\A goal_id \in RowIds(store) :
         ( /\ ParentOf(store, goal_id) # None
           /\ update_goal("u1", goal_id,
                          updates_of([parent_id |-> None, status |-> Unset]), "none") )
         => (resp'.code = 200 /\ ParentOf(store', goal_id) = None)]_vars


\* C27: nesting rule of the cycle-aware builder.  A row that lies on no
\* parent_id cycle and whose parent_id names an existing row that lies on no
\* cycle either is listed in that parent's children, whatever the row order.
C27_NestsUnderNonCycleParent ==
    built.app_done =>
        \A id \in RowIds(rows) :
            ( /\ ~OnCycle(rows, id)
              /\ ParentOf(rows, id) \in RowIds(rows)
              /\ ~OnCycle(rows, ParentOf(rows, id)) )
            => id \in SeqSet(built.app.children[ParentOf(rows, id)])

\* The forest is a finite tree below its roots: no reachable node is its own
\* descendant and each reachable node fills exactly one slot.
FiniteTree(f) ==
    \A goal \in Reachable(f) :
        /\ goal \notin Descendants(f, goal)
        /\ Occurrences(f, goal) = 1

\* C29: traversals terminate.  For every row list, cyclic, self-referencing
\* and dangling parent_id values included, what either build_tree makes
\* reachable from its roots is a finite tree, so a recursive walk from the
\* roots meets each reachable node once.
C29_ReachableIsFiniteTree ==
    /\ built.api_done => FiniteTree(built.api)
    /\ built.app_done => FiniteTree(built.app)

\* Both builders have run on rows that hold a parent_id cycle of two or more
\* rows beside a row outside it, and both forests have something to walk.
C29_Witness ==
    /\ built.api_done /\ built.app_done
    /\ \E id \in RowIds(rows) : OnCycle(rows, id) /\ ParentOf(rows, id) # id
    /\ \E id \in RowIds(rows) : ~OnCycle(rows, id)
    /\ Reachable(built.api) # {}
    /\ Reachable(built.app) # {}

\* The orderings of a row list.
Orderings(rs) ==
    {[i \in 1..Len(rs) |-> rs[p[i]]] :
        p \in {q \in [1..Len(rs) -> 1..Len(rs)] :
                  \A i, j \in 1..Len(rs) : q[i] = q[j] => i = j}}

\* Two forests over the same ids have the same root ids and, node by node,
\* the same child ids.
SameShape(f, g) ==
    /\ SeqSet(f.roots) = SeqSet(g.roots)
    /\ \A n \in DOMAIN f.children :
           SeqSet(f.children[n]) = SeqSet(g.children[n])

\* C30: the forest of the cycle-aware builder does not depend on row order.
\* Every ordering of the same rows gives the same set of root ids and the
\* same set of child ids under each node.
C30_OrderIndependent ==
    built.app_done =>
        \A other \in Orderings(rows) : SameShape(built.app, app_build_tree(other))

====
